---------------------------- MODULE Spec2Model ----------------------------
(***************************************************************************)
(* meet2jira: ticket-note extraction (app/action_extractor.py), comment    *)
(* posting (app/jira_client.py) and the transcript-processing request      *)
(* handler (app/routes.py).                                                *)
(*                                                                         *)
(* A Python str is a sequence of one-character strings.  The element       *)
(* "U0663" stands for one non-ASCII decimal digit (ARABIC-INDIC DIGIT      *)
(* THREE, Unicode category Nd).                                            *)
(***************************************************************************)
EXTENDS Integers, Sequences, FiniteSets, TLC

VARIABLES
    \* extract_jira_ticket_notes_regex
    transcript_text, lines, idx, j, collected, tickets, note, notes_by_ticket, pc,
    \* extract_jira_ticket_notes_ai
    client, completion, data, exc, ai_result, ai_pc,
    \* post_ticket_notes
    ticket_notes, meeting_title, results, calls, post_i, post_exc, post_pc,
    \* process_newest_transcript
    doc_name, jira_configured, db_meetings, db_action_items, new_meeting_id,
    action_items_list, route_exc, status, route_pc

rvars == <<transcript_text, lines, idx, j, collected, tickets, note, notes_by_ticket, pc>>

avars == <<client, completion, data, exc, ai_result, ai_pc>>

pvars == <<ticket_notes, meeting_title, results, calls, post_i, post_exc, post_pc>>

hvars == <<doc_name, jira_configured, db_meetings, db_action_items, new_meeting_id,
           action_items_list, route_exc, status, route_pc>>

vars == <<rvars, avars, pvars, hvars>>

---------------------------------------------------------------------------
(* Bounds of the model *)

\* Longest transcript, in lines.
MaxLines == 3

---------------------------------------------------------------------------
(* Characters and the str methods the code uses *)

UpperSeq == <<"A", "B", "C", "D", "E", "F", "G", "H", "I", "J", "K", "L", "M",
              "N", "O", "P", "Q", "R", "S", "T", "U", "V", "W", "X", "Y", "Z">>

LowerSeq == <<"a", "b", "c", "d", "e", "f", "g", "h", "i", "j", "k", "l", "m",
              "n", "o", "p", "q", "r", "s", "t", "u", "v", "w", "x", "y", "z">>

SeqRange(s) == {s[i] : i \in 1..Len(s)}

Upper == SeqRange(UpperSeq)

Lower == SeqRange(LowerSeq)

AsciiDigit == {"0", "1", "2", "3", "4", "5", "6", "7", "8", "9"}

\* \d of a str pattern: every Unicode decimal digit, not only 0-9.
Digit == AsciiDigit \cup {"U0663"}

\* [A-Z0-9] of the pattern.
UpperOrAsciiDigit == Upper \cup AsciiDigit

\* \w of a str pattern.
Word == Upper \cup Lower \cup Digit \cup {"_"}

\* the characters splitlines() breaks at
LineBreak == {"\n", "\r"}

\* \s, and what strip() removes
White == {" ", "\t"} \cup LineBreak

Min(S) == CHOOSE x \in S : \A y \in S : x <= y

Max(S) == CHOOSE x \in S : \A y \in S : x >= y

\* The last index e >= from - 1 with s[from..e] all in set.
RunEnd(s, from, set) ==
    LET bad == {i \in from..Len(s) : s[i] \notin set}
    IN  IF bad = {} THEN Len(s) ELSE Min(bad) - 1

strip(s) ==
    LET keep == {i \in 1..Len(s) : s[i] \notin White}
    IN  IF keep = {} THEN <<>> ELSE SubSeq(s, Min(keep), Max(keep))

lower(s) ==
    [i \in 1..Len(s) |->
        IF s[i] \in Upper
        THEN LowerSeq[CHOOSE k \in 1..Len(UpperSeq) : UpperSeq[k] = s[i]]
        ELSE s[i]]

startswith(s, prefix) ==
    /\ Len(prefix) <= Len(s)
    /\ SubSeq(s, 1, Len(prefix)) = prefix

RECURSIVE join(_, _)
join(sep, parts) ==
    IF parts = <<>> THEN <<>>
    ELSE IF Len(parts) = 1 THEN parts[1]
    ELSE parts[1] \o sep \o join(sep, Tail(parts))

\* str.splitlines(): break at \n, \r and \r\n; no empty last line.
RECURSIVE splitlines(_)
splitlines(s) ==
    IF s = <<>> THEN <<>>
    ELSE LET brk == {i \in 1..Len(s) : s[i] \in LineBreak}
         IN  IF brk = {} THEN <<s>>
             ELSE LET b == Min(brk)
                      n == IF s[b] = "\r" /\ b < Len(s) /\ s[b + 1] = "\n"
                           THEN b + 2 ELSE b + 1
                  IN  <<SubSeq(s, 1, b - 1)>> \o splitlines(SubSeq(s, n, Len(s)))

---------------------------------------------------------------------------
(* TICKET_ID_RE = \b([A-Z][A-Z0-9]+-\d+)\b *)

\* \b between s[p-1] and s[p].
WordBoundary(s, p) ==
    LET before == p > 1 /\ p - 1 <= Len(s) /\ s[p - 1] \in Word
        after  == p >= 1 /\ p <= Len(s) /\ s[p] \in Word
    IN  before # after

\* The end of the match of TICKET_ID_RE that starts at p, or 0 when there is
\* none.  Both + are greedy and neither can give a character back: the run of
\* [A-Z0-9] must be followed by "-", and a shorter run of \d would end between
\* two word characters, where \b fails.
TicketMatchEnd(s, p) ==
    IF ~(p <= Len(s) /\ WordBoundary(s, p) /\ s[p] \in Upper) THEN 0
    ELSE LET e1 == RunEnd(s, p + 1, UpperOrAsciiDigit)
         IN  IF ~(e1 >= p + 1 /\ e1 + 1 <= Len(s) /\ s[e1 + 1] = "-") THEN 0
             ELSE LET e2 == RunEnd(s, e1 + 2, Digit)
                  IN  IF e2 >= e1 + 2 /\ WordBoundary(s, e2 + 1) THEN e2 ELSE 0

\* TICKET_ID_RE.findall(s), scanning from p.
RECURSIVE findallFrom(_, _)
findallFrom(s, p) ==
    IF p > Len(s) THEN <<>>
    ELSE LET e == TicketMatchEnd(s, p)
         IN  IF e > 0 THEN <<SubSeq(s, p, e)>> \o findallFrom(s, e + 1)
             ELSE findallFrom(s, p + 1)

TICKET_ID_RE_findall(s) == findallFrom(s, 1)

TICKET_ID_RE_search(s) == \E p \in 1..Len(s) : TicketMatchEnd(s, p) > 0

TICKET_ID_RE_fullmatch(s) == Len(s) > 0 /\ TicketMatchEnd(s, 1) = Len(s)

---------------------------------------------------------------------------
(* CONTINUATION_RE = ^\s*(?:[-*]|\d+[\.\)])\s+ *)

CONTINUATION_RE_match(s) ==
    LET a == RunEnd(s, 1, White) + 1
        d == RunEnd(s, a, Digit)
    IN  \/ /\ a + 1 <= Len(s)
           /\ s[a] \in {"-", "*"}
           /\ s[a + 1] \in White
        \/ /\ d >= a
           /\ d + 2 <= Len(s)
           /\ s[d + 1] \in {".", ")"}
           /\ s[d + 2] \in White

ContinuationPrefixes ==
    { <<"a", "c", "t", "i", "o", "n", ":">>,
      <<"a", "c", "t", "i", "o", "n", " ", "i", "t", "e", "m">>,
      <<"a", "c", "t", "i", "o", "n", "s", ":">>,
      <<"d", "i", "s", "c", "u", "s", "s", "i", "o", "n", ":">>,
      <<"n", "o", "t", "e", "s", ":">>,
      <<"d", "e", "c", "i", "s", "i", "o", "n", ":">> }

_is_continuation_line(line) ==
    IF line = <<>> THEN FALSE
    ELSE IF CONTINUATION_RE_match(line) THEN TRUE
    ELSE \E prefix \in ContinuationPrefixes : startswith(lower(line), prefix)

RECURSIVE cleaned(_)
cleaned(ls) ==
    IF ls = <<>> THEN <<>>
    ELSE LET text == strip(Head(ls))
         IN  IF text = <<>> THEN cleaned(Tail(ls))
             ELSE <<text>> \o cleaned(Tail(ls))

\* Mutant of _normalize_note: the ticket line itself is left out of the note.
_normalize_note_of_tail(ls) == join(<<"\n">>, cleaned(Tail(ls)))

_normalize_note(ls) == join(<<"\n">>, cleaned(ls))

---------------------------------------------------------------------------
(* dict, in insertion order: a sequence of entries [k |-> key, v |-> value] *)

Keys(d) == [i \in 1..Len(d) |-> d[i].k]

HasKey(d, key) == \E i \in 1..Len(d) : d[i].k = key

Get(d, key) == d[CHOOSE i \in 1..Len(d) : d[i].k = key].v

\* d[key] = value
Put(d, key, value) ==
    IF HasKey(d, key)
    THEN [i \in 1..Len(d) |-> IF d[i].k = key THEN [k |-> key, v |-> value] ELSE d[i]]
    ELSE Append(d, [k |-> key, v |-> value])

\* d.setdefault(key, [])
SetDefault(d, key) == IF HasKey(d, key) THEN d ELSE Append(d, [k |-> key, v |-> <<>>])

Contains(list, x) == \E i \in 1..Len(list) : list[i] = x

NoDuplicates(list) == \A a, b \in 1..Len(list) : list[a] = list[b] => a = b

---------------------------------------------------------------------------
(* extract_jira_ticket_notes_ai *)

\* Most entries of a JSON object the model draws for the response.
MaxEntries == 2

\* A value that json.loads yields is [t, s, items]: t is "str", "num", "null"
\* or "list"; s is the text of a str, or the digits of a number; items are the
\* elements of a list, each a scalar [t, s].  A key of a JSON object is always a
\* str.
Scalar(t, s) == [t |-> t, s |-> s]

Value(t, s, items) == [t |-> t, s |-> s, items |-> items]

\* str(x)
str(x) ==
    IF x.t = "null" THEN <<"N", "o", "n", "e">>
    ELSE x.s

KeyPool ==
    { <<"I", "W", "M", "P", "-", "9", "9", "1">>,
      <<"i", "w", "m", "p", "-", "9", "9", "1">>,
      <<"$", "5", "0", "0">>,
      <<"5", "0", "0", " ", "u", "s", "e", "r", "s">>,
      <<"A", "-", "1">>,
      <<"A", "B", "-", "U0663">> }

ValuePool ==
    { Value("str", <<"n">>, <<>>),
      Value("num", <<"5">>, <<>>),
      Value("null", <<>>, <<>>),
      Value("list", <<>>, <<>>),
      Value("list", <<>>, <<Scalar("str", <<"a">>)>>),
      Value("list", <<>>, <<Scalar("str", <<"a">>), Scalar("str", <<"b">>)>>),
      Value("list", <<>>, <<Scalar("str", <<"a">>), Scalar("str", <<"a">>)>>),
      Value("list", <<>>, <<Scalar("num", <<"5">>)>>) }

\* The JSON objects of the model: up to MaxEntries entries, keys distinct.
Objects ==
    {d \in UNION {[1..n -> [k : KeyPool, v : ValuePool]] : n \in 0..MaxEntries} :
        \A a, b \in 1..Len(d) : d[a].k = d[b].k => a = b}

\* completion.choices[0].message.content: no content, text that is not JSON,
\* JSON that is not an object, or a JSON object.
Completions ==
    {[kind |-> c, object |-> <<>>] : c \in {"none", "not_json", "json_list", "json_number"}}
        \cup {[kind |-> "json_object", object |-> d] : d \in Objects}

\* isinstance(key, str) and TICKET_ID_RE.fullmatch(key)
KeyAccepted(key) == TICKET_ID_RE_fullmatch(key)

\* value if isinstance(value, list) else [str(value)]
Coerce(value) ==
    IF value.t = "list" THEN value.items
    ELSE <<Scalar("str", str(value))>>

\* The dict comprehension over data.items().
RECURSIVE Validate(_)
Validate(items) ==
    IF items = <<>> THEN <<>>
    ELSE IF KeyAccepted(Head(items).k)
         THEN <<[k |-> Head(items).k, v |-> Coerce(Head(items).v)]>> \o Validate(Tail(items))
         ELSE Validate(Tail(items))

\* Mutant of ExceptException: only a JSON decoding error is caught.
ExceptJSONDecodeError(e) == e = "JSONDecodeError"

\* except Exception as e: every exception the try block can raise is one.
ExceptException(e) == e \in {"APIError", "TypeError", "JSONDecodeError", "AttributeError"}

AiIdle ==
    /\ client = FALSE
    /\ completion = [kind |-> "none", object |-> <<>>]
    /\ data = <<>>
    /\ exc = "None"
    /\ ai_result = <<>>
    /\ ai_pc = "idle"

AiStart ==
    /\ client \in BOOLEAN
    /\ completion = [kind |-> "none", object |-> <<>>]
    /\ data = <<>>
    /\ exc = "None"
    /\ ai_result = <<>>
    /\ ai_pc = "start"

\* if not client: return {}
AiNoClient ==
    /\ ai_pc = "start"
    /\ ~client
    /\ ai_result' = <<>>
    /\ ai_pc' = "returned"
    /\ UNCHANGED <<client, completion, data, exc>>

\* client.chat.completions.create(...) returns a completion.
AiCreate ==
    /\ ai_pc = "start"
    /\ client
    /\ completion' \in Completions
    /\ ai_pc' = "loads"
    /\ UNCHANGED <<client, data, exc, ai_result>>

\* client.chat.completions.create(...) raises (network, timeout, API error).
AiCreateRaises ==
    /\ ai_pc = "start"
    /\ client
    /\ exc' = "APIError"
    /\ ai_pc' = "except"
    /\ UNCHANGED <<client, completion, data, ai_result>>

\* data = json.loads(response_text)
AiLoads ==
    /\ ai_pc = "loads"
    /\ IF completion.kind = "none"
       THEN exc' = "TypeError" /\ ai_pc' = "except" /\ UNCHANGED data
       ELSE IF completion.kind = "not_json"
       THEN exc' = "JSONDecodeError" /\ ai_pc' = "except" /\ UNCHANGED data
       ELSE data' = completion.object /\ ai_pc' = "items" /\ UNCHANGED exc
    /\ UNCHANGED <<client, completion, ai_result>>

\* return {... for key, value in data.items() if ...}
AiValidate ==
    /\ ai_pc = "items"
    /\ IF completion.kind = "json_object"
       THEN ai_result' = Validate(data) /\ ai_pc' = "returned" /\ UNCHANGED exc
       ELSE exc' = "AttributeError" /\ ai_pc' = "except" /\ UNCHANGED ai_result
    /\ UNCHANGED <<client, completion, data>>

\* except Exception as e: print(...); return {}
AiExcept ==
    /\ ai_pc = "except"
    /\ IF ExceptException(exc)
       THEN ai_result' = <<>> /\ ai_pc' = "returned"
       ELSE ai_pc' = "raised" /\ UNCHANGED ai_result
    /\ UNCHANGED <<client, completion, data, exc>>

---------------------------------------------------------------------------
(* post_ticket_notes and add_comment *)

\* meeting_title is None or a str: [none |-> TRUE, s |-> <<>>] is None.
None == [none |-> TRUE, s |-> <<>>]

Str(s) == [none |-> FALSE, s |-> s]

\* if meeting_title:
Truthy(title) == ~title.none /\ title.s # <<>>

\* lines, before the join: the title line, then the single note or the
\* "Notes:" header and one "- {note}" line per note.
CommentLines(notes, title) ==
    (IF Truthy(title)
     THEN << <<"M", "e", "e", "t", "i", "n", "g", " ", "n", "o", "t", "e", "s", " ",
               "f", "r", "o", "m", ":", " ">> \o title.s >>
     ELSE <<>>)
    \o (IF Len(notes) = 1
        THEN <<notes[1].s>>
        ELSE << <<"N", "o", "t", "e", "s", ":">> >>
             \o [n \in 1..Len(notes) |-> <<"-", " ">> \o str(notes[n])])

\* Mutant of comment_text: the "Notes:" header is left out.
comment_text_without_header(notes, title) ==
    join(<<"\n">>,
         (IF Truthy(title)
          THEN << <<"M", "e", "e", "t", "i", "n", "g", " ", "n", "o", "t", "e", "s", " ",
                    "f", "r", "o", "m", ":", " ">> \o title.s >>
          ELSE <<>>)
         \o (IF Len(notes) = 1
             THEN <<notes[1].s>>
             ELSE [n \in 1..Len(notes) |-> <<"-", " ">> \o str(notes[n])]))

\* comment_text = "\n".join(lines)
comment_text(notes, title) == join(<<"\n">>, CommentLines(notes, title))

\* "\n".join(lines) raises TypeError when an element of lines is no str: the
\* single note is appended as it is, the others are formatted into a str.
JoinRaises(notes) == Len(notes) = 1 /\ notes[1].t # "str"

\* The maps the validation step can hand over.
TicketNoteMaps == {Validate(d) : d \in Objects}

MeetingTitles == {None, Str(<<>>), Str(<<"S", "1">>)}

PostIdle ==
    /\ ticket_notes = <<>>
    /\ meeting_title = None
    /\ results = <<>>
    /\ calls = <<>>
    /\ post_i = 0
    /\ post_exc = "None"
    /\ post_pc = "idle"

\* results = {}
PostStart ==
    /\ ticket_notes \in TicketNoteMaps
    /\ meeting_title \in MeetingTitles
    /\ results = <<>>
    /\ calls = <<>>
    /\ post_i = 0
    /\ post_exc = "None"
    /\ post_pc = "for"

\* if not notes: continue
PostSkip ==
    /\ post_pc = "for"
    /\ post_i < Len(ticket_notes)
    /\ ticket_notes[post_i + 1].v = <<>>
    /\ post_i' = post_i + 1
    /\ UNCHANGED <<ticket_notes, meeting_title, results, calls, post_exc, post_pc>>

\* "\n".join(lines) raises: no comment is built.
PostJoinRaises ==
    /\ post_pc = "for"
    /\ post_i < Len(ticket_notes)
    /\ ticket_notes[post_i + 1].v # <<>>
    /\ JoinRaises(ticket_notes[post_i + 1].v)
    /\ post_i' = post_i + 1
    /\ post_exc' = "TypeError"
    /\ post_pc' = "raised"
    /\ UNCHANGED <<ticket_notes, meeting_title, results, calls>>

\* add_comment(ticket, comment_text) returns; results[ticket] = "posted"
PostComment ==
    /\ post_pc = "for"
    /\ post_i < Len(ticket_notes)
    /\ ticket_notes[post_i + 1].v # <<>>
    /\ ~JoinRaises(ticket_notes[post_i + 1].v)
    /\ post_i' = post_i + 1
    /\ calls' = Append(calls, [issue_key |-> ticket_notes[post_i + 1].k,
                               comment_text |-> comment_text(ticket_notes[post_i + 1].v,
                                                             meeting_title),
                               posted |-> TRUE])
    /\ results' = Put(results, ticket_notes[post_i + 1].k, "posted")
    /\ UNCHANGED <<ticket_notes, meeting_title, post_exc, post_pc>>

\* Mutant of PostCommentRaises: the failure is caught per ticket, recorded as
\* "failed", and the loop goes on.
PostCommentFailureRecorded ==
    /\ post_pc = "for"
    /\ post_i < Len(ticket_notes)
    /\ ticket_notes[post_i + 1].v # <<>>
    /\ ~JoinRaises(ticket_notes[post_i + 1].v)
    /\ post_i' = post_i + 1
    /\ calls' = Append(calls, [issue_key |-> ticket_notes[post_i + 1].k,
                               comment_text |-> comment_text(ticket_notes[post_i + 1].v,
                                                             meeting_title),
                               posted |-> FALSE])
    /\ results' = Put(results, ticket_notes[post_i + 1].k, "failed")
    /\ UNCHANGED <<ticket_notes, meeting_title, post_exc, post_pc>>

\* add_comment(ticket, comment_text) raises: missing config, a failed request
\* or raise_for_status() on an error response.
PostCommentRaises ==
    /\ post_pc = "for"
    /\ post_i < Len(ticket_notes)
    /\ ticket_notes[post_i + 1].v # <<>>
    /\ ~JoinRaises(ticket_notes[post_i + 1].v)
    /\ post_i' = post_i + 1
    /\ calls' = Append(calls, [issue_key |-> ticket_notes[post_i + 1].k,
                               comment_text |-> comment_text(ticket_notes[post_i + 1].v,
                                                             meeting_title),
                               posted |-> FALSE])
    /\ post_exc' \in {"RuntimeError", "RequestException"}
    /\ post_pc' = "raised"
    /\ UNCHANGED <<ticket_notes, meeting_title, results>>

\* return results
PostReturn ==
    /\ post_pc = "for"
    /\ post_i = Len(ticket_notes)
    /\ post_pc' = "returned"
    /\ UNCHANGED <<ticket_notes, meeting_title, results, calls, post_i, post_exc>>

---------------------------------------------------------------------------
(* extract_action_items *)

\* Most entries of an action_items list the model draws for the response.
MaxItems == 2

\* An entry of the list is a JSON object (with or without a description) or
\* any other JSON value.
ItemPool ==
    { [dict |-> TRUE, description |-> TRUE],
      [dict |-> TRUE, description |-> FALSE],
      [dict |-> FALSE, description |-> FALSE] }

\* What data.get('action_items', []) yields: a list, or another JSON value
\* (a non-empty string, a non-zero number, null).
ActionItemValues ==
    {[t |-> "list", items |-> l] : l \in UNION {[1..n -> ItemPool] : n \in 0..MaxItems}}
        \cup {[t |-> x, items |-> <<>>] : x \in {"str", "num", "null"}}

EmptyList == [t |-> "list", items |-> <<>>]

\* The outcomes of the call and of json.loads: the call raises, the content is
\* None or no JSON, the JSON is no object, the object has no action_items key,
\* or it has one with some value.
ActionResponses ==
    {[kind |-> x, action_items |-> EmptyList] :
        x \in {"raises", "none", "not_json", "json_list", "object_without_key"}}
        \cup {[kind |-> "object", action_items |-> v] : v \in ActionItemValues}

\* The try block on one response.  Every exception ends in return []: of the
\* call, of json.loads, of get on JSON that is no object, and of len() in the
\* print, which raises TypeError for a number and for null.  A missing key
\* gives the default [].
action_items_of(r) ==
    IF r.kind # "object" THEN EmptyList
    ELSE IF r.action_items.t \in {"num", "null"} THEN EmptyList
    ELSE r.action_items

\* What extract_action_items can return: [] without a client, otherwise what
\* the try block gives on some response.
extract_action_items(c) ==
    IF ~c THEN {EmptyList}
    ELSE {action_items_of(r) : r \in ActionResponses}

\* if action_items_list:
ItemsTruthy(v) ==
    \/ v.t = "list" /\ v.items # <<>>
    \/ v.t \in {"str", "num"}

\* The exception the for loop over action_items_list raises, or "None": a
\* number is not iterable; the characters of a string and every entry that is
\* no dict have no get.
StoreItemsRaises(v) ==
    IF v.t = "num" THEN "TypeError"
    ELSE IF v.t = "str" THEN "AttributeError"
    ELSE IF \E n \in 1..Len(v.items) : ~v.items[n].dict THEN "AttributeError"
    ELSE "None"

---------------------------------------------------------------------------
(* process_newest_transcript *)

DocNames == {<<"S", "1">>}

RouteStart ==
    /\ doc_name \in DocNames
    /\ jira_configured \in BOOLEAN
    /\ db_meetings \in SUBSET DocNames
    /\ db_action_items = <<>>
    /\ new_meeting_id = FALSE
    /\ action_items_list = EmptyList
    /\ route_exc = "None"
    /\ status = 0
    /\ route_pc = "request"

RouteIdle ==
    /\ doc_name = <<>>
    /\ jira_configured = FALSE
    /\ db_meetings = {}
    /\ db_action_items = <<>>
    /\ new_meeting_id = FALSE
    /\ action_items_list = EmptyList
    /\ route_exc = "None"
    /\ status = 0
    /\ route_pc = "idle"

\* 'doc_url' in data and extract_id_from_url(url) finds no id
RouteInvalidUrl ==
    /\ route_pc = "request"
    /\ status' = 400
    /\ route_pc' = "done"
    /\ UNCHANGED <<doc_name, jira_configured, db_meetings, db_action_items,
                   new_meeting_id, action_items_list, route_exc>>

\* get_transcript_by_id or get_transcript_from_folder returns (None, None)
RouteNoTranscript ==
    /\ route_pc = "request"
    /\ status' = 404
    /\ route_pc' = "done"
    /\ UNCHANGED <<doc_name, jira_configured, db_meetings, db_action_items,
                   new_meeting_id, action_items_list, route_exc>>

\* Meeting.query.filter_by(meeting_code=doc_name).first() finds a meeting
RouteAlreadyProcessed ==
    /\ route_pc = "request"
    /\ doc_name \in db_meetings
    /\ status' = 200
    /\ route_pc' = "done"
    /\ UNCHANGED <<doc_name, jira_configured, db_meetings, db_action_items,
                   new_meeting_id, action_items_list, route_exc>>

\* The meeting and its transcript are added and committed.
RouteSaveTranscript ==
    /\ route_pc = "request"
    /\ doc_name \notin db_meetings
    /\ db_meetings' = db_meetings \cup {doc_name}
    /\ new_meeting_id' = TRUE
    /\ route_pc' = "action_items"
    /\ UNCHANGED <<doc_name, jira_configured, db_action_items, action_items_list,
                   route_exc, status>>

\* The first commit raises: nothing is stored and new_meeting has no id.
RouteSaveRaises ==
    /\ route_pc = "request"
    /\ doc_name \notin db_meetings
    /\ route_exc' = "SQLAlchemyError"
    /\ route_pc' = "except"
    /\ UNCHANGED <<doc_name, jira_configured, db_meetings, db_action_items,
                   new_meeting_id, action_items_list, status>>

\* action_items_list = action_extractor.extract_action_items(transcript_text)
RouteExtractActionItems ==
    /\ route_pc = "action_items"
    /\ action_items_list' \in extract_action_items(client)
    /\ route_pc' = "store_items"
    /\ UNCHANGED <<doc_name, jira_configured, db_meetings, db_action_items,
                   new_meeting_id, route_exc, status>>

\* if action_items_list: add an ActionItem per entry, commit.  An exception of
\* the loop leaves the try block before the commit.
RouteStoreItems ==
    /\ route_pc = "store_items"
    /\ IF ~ItemsTruthy(action_items_list)
       THEN route_pc' = "notes" /\ UNCHANGED <<db_action_items, route_exc>>
       ELSE IF StoreItemsRaises(action_items_list) # "None"
       THEN /\ route_exc' = StoreItemsRaises(action_items_list)
            /\ route_pc' = "except"
            /\ UNCHANGED db_action_items
       ELSE /\ db_action_items' = action_items_list.items
            /\ route_pc' = "notes"
            /\ UNCHANGED route_exc
    /\ UNCHANGED <<doc_name, jira_configured, db_meetings, new_meeting_id,
                   action_items_list, status>>

\* The commit of the action items raises.
RouteStoreItemsCommitRaises ==
    /\ route_pc = "store_items"
    /\ ItemsTruthy(action_items_list)
    /\ StoreItemsRaises(action_items_list) = "None"
    /\ route_exc' = "SQLAlchemyError"
    /\ route_pc' = "except"
    /\ UNCHANGED <<doc_name, jira_configured, db_meetings, db_action_items,
                   new_meeting_id, action_items_list, status>>

\* ticket_notes = action_extractor.extract_jira_ticket_notes_ai(transcript_text)
RouteCallAi ==
    /\ route_pc = "notes"
    /\ ai_pc = "idle"
    /\ ai_pc' = "start"
    /\ route_pc' = "in_ai"
    /\ UNCHANGED <<client, completion, data, exc, ai_result>>
    /\ UNCHANGED <<doc_name, jira_configured, db_meetings, db_action_items,
                   new_meeting_id, action_items_list, route_exc, status>>

\* extract_jira_ticket_notes_ai raised: the handler's except block is next.
\* It returned: with notes and Jira configured, post_ticket_notes is called;
\* otherwise the response is 201.
RouteAfterAi ==
    /\ route_pc = "in_ai"
    /\ ai_pc \in {"returned", "raised"}
    /\ IF ai_pc = "raised"
       THEN /\ route_exc' = exc
            /\ route_pc' = "except"
            /\ UNCHANGED <<pvars, status>>
       ELSE IF ai_result # <<>> /\ jira_configured
       THEN /\ ticket_notes' = ai_result
            /\ meeting_title' = Str(doc_name)
            /\ results' = <<>>
            /\ calls' = <<>>
            /\ post_i' = 0
            /\ post_exc' = "None"
            /\ post_pc' = "for"
            /\ route_pc' = "in_post"
            /\ UNCHANGED <<route_exc, status>>
       ELSE /\ status' = 201
            /\ route_pc' = "done"
            /\ UNCHANGED <<pvars, route_exc>>
    /\ UNCHANGED <<doc_name, jira_configured, db_meetings, db_action_items,
                   new_meeting_id, action_items_list>>

\* post_ticket_notes returned, or raised into the inner except, which prints.
RouteAfterPost ==
    /\ route_pc = "in_post"
    /\ post_pc \in {"returned", "raised"}
    /\ status' = 201
    /\ route_pc' = "done"
    /\ UNCHANGED <<doc_name, jira_configured, db_meetings, db_action_items,
                   new_meeting_id, action_items_list, route_exc>>

\* except Exception: rollback; delete the meeting when it has an id; 500
RouteExcept ==
    /\ route_pc = "except"
    /\ db_meetings' = IF new_meeting_id THEN db_meetings \ {doc_name} ELSE db_meetings
    /\ status' = 500
    /\ route_pc' = "done"
    /\ UNCHANGED <<doc_name, jira_configured, db_action_items, new_meeting_id,
                   action_items_list, route_exc>>

---------------------------------------------------------------------------
(* extract_jira_ticket_notes_regex *)

\* Mutant of AddNoteAdded: the note replaces the ticket's list (= instead of
\* append).
AddNoteReplacing(d, ticket, n) ==
    LET d1 == SetDefault(d, ticket)
    IN  IF n # <<>> /\ ~Contains(Get(d1, ticket), n)
        THEN Put(d1, ticket, <<n>>)
        ELSE d1

\* notes_by_ticket.setdefault(ticket, []); append the note unless it is empty
\* or already there.
AddNoteAdded(d, ticket, n) ==
    LET d1 == SetDefault(d, ticket)
    IN  IF n # <<>> /\ ~Contains(Get(d1, ticket), n)
        THEN Put(d1, ticket, Append(Get(d1, ticket), n))
        ELSE d1

\* Mutant of AddNoteToTickets: only tickets[0] gets the note.
AddNoteToFirstTicket(d, ts, n) ==
    IF ts = <<>> THEN d
    ELSE LET d1 == SetDefault(d, Head(ts))
         IN  IF n # <<>> /\ ~Contains(Get(d1, Head(ts)), n)
             THEN Put(d1, Head(ts), Append(Get(d1, Head(ts)), n))
             ELSE d1

\* for ticket in tickets: ...
RECURSIVE AddNoteToTickets(_, _, _)
AddNoteToTickets(d, ts, n) ==
    IF ts = <<>> THEN d
    ELSE AddNoteToTickets(AddNoteAdded(d, Head(ts), n), Tail(ts), n)

\* The lines a transcript of the model is made of.
LinePool ==
    { <<"A", "B", "-", "1", " ", "x">>,
      <<" ", "A", "B", "-", "1", " ", "x", " ">>,
      <<"A", "B", "-", "1", " ", "C", "D", "-", "2">>,
      <<"-", " ", "y">>,
      <<" ">>,
      <<"n", "o", "t", "e">>,
      <<"N", "o", "t", "e", "s", ":", " ", "z">>,
      <<"1", ")", " ", "w">>,
      <<"-", " ", "A", "B", "-", "1">> }

Transcripts ==
    {join(<<"\n">>, ls) : ls \in UNION {[1..n -> LinePool] : n \in 0..MaxLines}}

RegexIdle ==
    /\ transcript_text = <<>>
    /\ lines = <<>>
    /\ idx = 0
    /\ j = 0
    /\ collected = <<>>
    /\ tickets = <<>>
    /\ note = <<>>
    /\ notes_by_ticket = <<>>
    /\ pc = "idle"

RegexStart ==
    /\ transcript_text \in Transcripts
    /\ lines = <<>>
    /\ idx = 0
    /\ j = 0
    /\ collected = <<>>
    /\ tickets = <<>>
    /\ note = <<>>
    /\ notes_by_ticket = <<>>
    /\ pc = "start"

\* lines = transcript_text.splitlines(); notes_by_ticket = {}
Splitlines ==
    /\ pc = "start"
    /\ lines' = splitlines(transcript_text)
    /\ notes_by_ticket' = <<>>
    /\ idx' = 0
    /\ pc' = "for"
    /\ UNCHANGED <<transcript_text, j, collected, tickets, note>>

\* The for loop takes the next line, which is blank or names no ticket.
SkipLine ==
    /\ pc = "for"
    /\ idx < Len(lines)
    /\ LET line == strip(lines[idx + 1])
       IN  line = <<>> \/ TICKET_ID_RE_findall(line) = <<>>
    /\ idx' = idx + 1
    /\ UNCHANGED <<transcript_text, lines, j, collected, tickets, note, notes_by_ticket, pc>>

\* The for loop takes the next line, which names a ticket: a window opens.
BeginWindow ==
    /\ pc = "for"
    /\ idx < Len(lines)
    /\ LET line == strip(lines[idx + 1])
       IN  /\ line # <<>>
           /\ TICKET_ID_RE_findall(line) # <<>>
           /\ tickets' = TICKET_ID_RE_findall(line)
           /\ collected' = <<line>>
    /\ idx' = idx + 1
    /\ j' = idx + 2
    /\ pc' = "while"
    /\ UNCHANGED <<transcript_text, lines, note, notes_by_ticket>>

\* Mutant of Continues: the window does not stop at a line with a ticket ID.
ContinuesPastTickets(ls, jj) ==
    /\ jj <= Len(ls)
    /\ LET next_line == strip(ls[jj])
       IN  /\ next_line # <<>>
           /\ _is_continuation_line(next_line)

\* Whether the while loop's body appends lines[jj] and goes on.
Continues(ls, jj) ==
    /\ jj <= Len(ls)
    /\ LET next_line == strip(ls[jj])
       IN  /\ next_line # <<>>
           /\ ~TICKET_ID_RE_search(next_line)
           /\ _is_continuation_line(next_line)

CollectLine ==
    /\ pc = "while"
    /\ Continues(lines, j)
    /\ collected' = Append(collected, strip(lines[j]))
    /\ j' = j + 1
    /\ UNCHANGED <<transcript_text, lines, idx, tickets, note, notes_by_ticket, pc>>

EndWindow ==
    /\ pc = "while"
    /\ ~Continues(lines, j)
    /\ pc' = "note"
    /\ UNCHANGED <<transcript_text, lines, idx, j, collected, tickets, note, notes_by_ticket>>

AddNote ==
    /\ pc = "note"
    /\ note' = _normalize_note(collected)
    /\ notes_by_ticket' = AddNoteToTickets(notes_by_ticket, tickets, note')
    /\ pc' = "for"
    /\ UNCHANGED <<transcript_text, lines, idx, j, collected, tickets>>

RegexReturn ==
    /\ pc = "for"
    /\ idx = Len(lines)
    /\ pc' = "done"
    /\ UNCHANGED <<transcript_text, lines, idx, j, collected, tickets, note, notes_by_ticket>>

---------------------------------------------------------------------------
(* Specifications: one per entry point *)

RegexNext ==
    \/ Splitlines /\ UNCHANGED <<avars, pvars, hvars>>
    \/ SkipLine /\ UNCHANGED <<avars, pvars, hvars>>
    \/ BeginWindow /\ UNCHANGED <<avars, pvars, hvars>>
    \/ CollectLine /\ UNCHANGED <<avars, pvars, hvars>>
    \/ EndWindow /\ UNCHANGED <<avars, pvars, hvars>>
    \/ AddNote /\ UNCHANGED <<avars, pvars, hvars>>
    \/ RegexReturn /\ UNCHANGED <<avars, pvars, hvars>>

RegexInit == RegexStart /\ AiIdle /\ PostIdle /\ RouteIdle

SpecRegex == RegexInit /\ [][RegexNext]_vars

AiNext ==
    \/ AiNoClient /\ UNCHANGED <<rvars, pvars, hvars>>
    \/ AiCreate /\ UNCHANGED <<rvars, pvars, hvars>>
    \/ AiCreateRaises /\ UNCHANGED <<rvars, pvars, hvars>>
    \/ AiLoads /\ UNCHANGED <<rvars, pvars, hvars>>
    \/ AiValidate /\ UNCHANGED <<rvars, pvars, hvars>>
    \/ AiExcept /\ UNCHANGED <<rvars, pvars, hvars>>

AiInit == AiStart /\ RegexIdle /\ PostIdle /\ RouteIdle

SpecAI == AiInit /\ [][AiNext]_vars

PostNext ==
    \/ PostSkip /\ UNCHANGED <<rvars, avars, hvars>>
    \/ PostJoinRaises /\ UNCHANGED <<rvars, avars, hvars>>
    \/ PostComment /\ UNCHANGED <<rvars, avars, hvars>>
    \/ PostCommentRaises /\ UNCHANGED <<rvars, avars, hvars>>
    \/ PostReturn /\ UNCHANGED <<rvars, avars, hvars>>

PostInit == PostStart /\ RegexIdle /\ AiIdle /\ RouteIdle

SpecPost == PostInit /\ [][PostNext]_vars

\* The request handler with the calls it makes.
RouteNext ==
    \/ RouteInvalidUrl /\ UNCHANGED <<rvars, avars, pvars>>
    \/ RouteNoTranscript /\ UNCHANGED <<rvars, avars, pvars>>
    \/ RouteAlreadyProcessed /\ UNCHANGED <<rvars, avars, pvars>>
    \/ RouteSaveTranscript /\ UNCHANGED <<rvars, avars, pvars>>
    \/ RouteSaveRaises /\ UNCHANGED <<rvars, avars, pvars>>
    \/ RouteExtractActionItems /\ UNCHANGED <<rvars, avars, pvars>>
    \/ RouteStoreItems /\ UNCHANGED <<rvars, avars, pvars>>
    \/ RouteStoreItemsCommitRaises /\ UNCHANGED <<rvars, avars, pvars>>
    \/ RouteCallAi /\ UNCHANGED <<rvars, pvars>>
    \/ RouteAfterAi /\ UNCHANGED <<rvars, avars>>
    \/ RouteAfterPost /\ UNCHANGED <<rvars, avars, pvars>>
    \/ RouteExcept /\ UNCHANGED <<rvars, avars, pvars>>
    \/ AiNext
    \/ PostNext

\* The module's client is present or absent (its construction failed).
RouteInit ==
    /\ RouteStart
    /\ RegexIdle
    /\ PostIdle
    /\ client \in BOOLEAN
    /\ completion = [kind |-> "none", object |-> <<>>]
    /\ data = <<>>
    /\ exc = "None"
    /\ ai_result = <<>>
    /\ ai_pc = "idle"

SpecRoute == RouteInit /\ [][RouteNext]_vars

\* The handler from its call of post_ticket_notes on: the meeting is stored,
\* the validated response holds at least one key and Jira is configured.
PostingInit ==
    /\ RegexIdle
    /\ client = TRUE
    /\ completion \in {c \in Completions : c.kind = "json_object" /\ Validate(c.object) # <<>>}
    /\ data = completion.object
    /\ exc = "None"
    /\ ai_result = Validate(data)
    /\ ai_pc = "returned"
    /\ doc_name \in DocNames
    /\ jira_configured = TRUE
    /\ db_meetings = {doc_name}
    /\ db_action_items = <<>>
    /\ new_meeting_id = TRUE
    /\ action_items_list = EmptyList
    /\ route_exc = "None"
    /\ status = 0
    /\ route_pc = "in_post"
    /\ ticket_notes = ai_result
    /\ meeting_title = Str(doc_name)
    /\ results = <<>>
    /\ calls = <<>>
    /\ post_i = 0
    /\ post_exc = "None"
    /\ post_pc = "for"

PostingNext ==
    \/ PostNext
    \/ RouteAfterPost /\ UNCHANGED <<rvars, avars, pvars>>

SpecPosting == PostingInit /\ [][PostingNext]_vars

---------------------------------------------------------------------------
(* Properties of process_newest_transcript *)

\* C5: once the meeting and its transcript are committed, the request ends in
\* 201 and the stored meeting is kept, whatever extract_action_items,
\* extract_jira_ticket_notes_ai and post_ticket_notes return or raise; none of
\* their outcomes leads to the 500 branch that deletes the meeting.
C5_SuccessOnceCommitted ==
    (route_pc = "done" /\ new_meeting_id /\ route_exc # "SQLAlchemyError")
        => status = 201 /\ doc_name \in db_meetings

\* C12: the list extract_action_items hands to the caller that stores
\* ActionItem rows holds only objects with a description; a response of any
\* other shape does not reach it.
C12_ActionItemsHaveDescription ==
    route_pc = "store_items" =>
        /\ action_items_list.t = "list"
        /\ \A n \in 1..Len(action_items_list.items) :
              /\ action_items_list.items[n].dict
              /\ action_items_list.items[n].description

---------------------------------------------------------------------------
(* Properties of extract_jira_ticket_notes_ai *)

\* The ticket grammar [A-Z][A-Z0-9]+-[0-9]+, on the whole string.
TicketGrammar(key) ==
    \E dash \in 3..(Len(key) - 1) :
        /\ key[1] \in Upper
        /\ \A i \in 2..(dash - 1) : key[i] \in UpperOrAsciiDigit
        /\ key[dash] = "-"
        /\ \A i \in (dash + 1)..Len(key) : key[i] \in AsciiDigit

\* str.upper()
upper(key) ==
    [i \in 1..Len(key) |->
        IF key[i] \in Lower
        THEN UpperSeq[CHOOSE k \in 1..Len(LowerSeq) : LowerSeq[k] = key[i]]
        ELSE key[i]]

\* The call returned the validated response.
Validated == ai_pc = "returned" /\ client /\ exc = "None"

\* C1: every key of the map the validation step returns fully matches the
\* ticket grammar [A-Z][A-Z0-9]+-[0-9]+; any other key is dropped.
C1_KeysMatchGrammar ==
    Validated =>
        \A i \in 1..Len(ai_result) : TicketGrammar(ai_result[i].k)

\* C2: a response key that matches the ticket grammar when case is ignored is
\* in the returned map in its uppercase form with that entry's notes, and every
\* key of the returned map is uppercase.
C2_CaseInsensitiveKeys ==
    Validated =>
        /\ \A i \in 1..Len(data) :
              TicketGrammar(upper(data[i].k)) =>
                  /\ HasKey(ai_result, upper(data[i].k))
                  /\ \/ Get(ai_result, upper(data[i].k)) = Coerce(data[i].v)
                     \/ \E m \in 1..Len(data) :
                           /\ m # i
                           /\ upper(data[m].k) = upper(data[i].k)
                           /\ Get(ai_result, upper(data[i].k)) = Coerce(data[m].v)
        /\ \A i \in 1..Len(ai_result) : ai_result[i].k = upper(ai_result[i].k)

\* C3: every value of the returned map is a list of strings: a scalar is
\* wrapped as the one-element list of its string form, and every element of a
\* list value is converted to a string.
C3_ValuesAreListsOfStrings ==
    Validated =>
        \A i \in 1..Len(ai_result) :
            \A n \in 1..Len(ai_result[i].v) : ai_result[i].v[n].t = "str"

\* C4: on both extraction paths no ticket of the returned map has a note list
\* that holds the same note twice.
C4_NoDuplicateNotes ==
    /\ \A i \in 1..Len(notes_by_ticket) : NoDuplicates(notes_by_ticket[i].v)
    /\ Validated => \A i \in 1..Len(ai_result) : NoDuplicates(ai_result[i].v)

\* C11: on both extraction paths a ticket with zero notes is never a key of
\* the returned map: every key maps to a non-empty note list.
C11_NoEmptyNoteLists ==
    /\ pc = "done" => \A i \in 1..Len(notes_by_ticket) : notes_by_ticket[i].v # <<>>
    /\ Validated => \A i \in 1..Len(ai_result) : ai_result[i].v # <<>>

\* C6: a failure of the model call is never propagated: with the client
\* absent, the call raising, a response that is not JSON or JSON that is not an
\* object, the function returns an empty map and raises nothing.
C6_FailureGivesEmptyMap ==
    /\ ai_pc # "raised"
    /\ (ai_pc = "returned" /\ (~client \/ exc # "None")) => ai_result = <<>>

\* C6 witness: the response was JSON but no object; an empty map came back.
C6_Witness ==
    /\ ai_pc = "returned"
    /\ completion.kind \in {"json_list", "json_number"}
    /\ exc = "AttributeError"
    /\ ai_result = <<>>

---------------------------------------------------------------------------
(* Properties of post_ticket_notes *)

\* The body the claim describes for a ticket's notes.
ClaimedBody(notes, title) ==
    LET first == IF Truthy(title)
                 THEN << <<"M", "e", "e", "t", "i", "n", "g", " ", "n", "o", "t", "e", "s",
                           " ", "f", "r", "o", "m", ":", " ">> \o title.s >>
                 ELSE <<>>
        rest  == IF Len(notes) = 1
                 THEN <<str(notes[1])>>
                 ELSE << <<"N", "o", "t", "e", "s", ":">> >>
                      \o [n \in 1..Len(notes) |-> <<"-", " ">> \o str(notes[n])]
    IN  join(<<"\n">>, first \o rest)

Comment(c) == [issue_key |-> c.issue_key, comment_text |-> c.comment_text]

\* One comment per entry of d, in d's order.
RECURSIVE ClaimedComments(_, _)
ClaimedComments(d, title) ==
    IF d = <<>> THEN <<>>
    ELSE <<[issue_key |-> Head(d).k, comment_text |-> ClaimedBody(Head(d).v, title)]>>
         \o ClaimedComments(Tail(d), title)

\* The entries of d whose note list is not empty, in d's order.
RECURSIVE WithNotes(_)
WithNotes(d) ==
    IF d = <<>> THEN <<>>
    ELSE IF Head(d).v = <<>> THEN WithNotes(Tail(d))
    ELSE <<Head(d)>> \o WithNotes(Tail(d))

IsPrefix(a, b) == Len(a) <= Len(b) /\ a = SubSeq(b, 1, Len(a))

AddCommentRaised == post_pc = "raised" /\ post_exc \in {"RuntimeError", "RequestException"}

---------------------------------------------------------------------------
(* Properties of extract_jira_ticket_notes_regex *)

NamesTicket(l) == strip(l) # <<>> /\ TICKET_ID_RE_findall(strip(l)) # <<>>

\* A line that joins the note of the ticket line before it.
JoinsWindow(l) ==
    /\ strip(l) # <<>>
    /\ TICKET_ID_RE_findall(strip(l)) = <<>>
    /\ _is_continuation_line(strip(l))

\* The last line of the maximal run of joining lines right after line i.
WindowEnd(ls, i) ==
    LET stop == {k \in (i + 1)..Len(ls) : ~JoinsWindow(ls[k])}
    IN  IF stop = {} THEN Len(ls) ELSE Min(stop) - 1

WindowNote(ls, i) ==
    join(<<"\n">>, [k \in 1..(WindowEnd(ls, i) - i + 1) |-> strip(ls[i + k - 1])])

\* C7: the note built for the ticket-bearing line at idx is that stripped line
\* followed by the maximal run of immediately following lines that are each
\* non-blank, without a ticket ID and continuation lines, stripped and joined
\* with newlines; the first other line ends the window and is not in the note.
C7_NoteIsMaximalWindow ==
    (pc = "for" /\ idx >= 1 /\ NamesTicket(lines[idx]))
        => note = WindowNote(lines, idx)

\* C7 witness: a window of several lines that a following line ended.
C7_Witness ==
    /\ pc = "for"
    /\ idx >= 1
    /\ NamesTicket(lines[idx])
    /\ WindowEnd(lines, idx) > idx
    /\ WindowEnd(lines, idx) < Len(lines)
    /\ note = WindowNote(lines, idx)

\* Line i names exactly one ticket ID and no continuation line follows it.
SingleTicketLine(ls, i) ==
    /\ strip(ls[i]) # <<>>
    /\ Len(TICKET_ID_RE_findall(strip(ls[i]))) = 1
    /\ WindowEnd(ls, i) = i

TicketOf(ls, i) == TICKET_ID_RE_findall(strip(ls[i]))[1]

\* C8 as stated: such a ticket has exactly one note, the trimmed line.
C8_ExactlyOneNote ==
    pc = "done" =>
        \A i \in 1..Len(lines) :
            SingleTicketLine(lines, i) =>
                /\ HasKey(notes_by_ticket, TicketOf(lines, i))
                /\ Get(notes_by_ticket, TicketOf(lines, i)) = <<strip(lines[i])>>

OnlyLineNaming(ls, i) ==
    \A k \in 1..Len(ls) :
        k # i => ~Contains(TICKET_ID_RE_findall(strip(ls[k])), TicketOf(ls, i))

\* C8 amended: for a line with exactly one ticket ID and no following
\* continuation lines, the returned map contains that ticket and the trimmed
\* line is one of its notes; it is the ticket's only note when no other line
\* of the transcript names that ticket.
C8_TrimmedLineIsANote ==
    pc = "done" =>
        \A i \in 1..Len(lines) :
            SingleTicketLine(lines, i) =>
                /\ HasKey(notes_by_ticket, TicketOf(lines, i))
                /\ Contains(Get(notes_by_ticket, TicketOf(lines, i)), strip(lines[i]))
                /\ OnlyLineNaming(lines, i) =>
                       Get(notes_by_ticket, TicketOf(lines, i)) = <<strip(lines[i])>>

\* C8 witness: two such lines name the same ticket, which ends with two notes.
C8_Witness ==
    /\ pc = "done"
    /\ \E i \in 1..Len(lines) :
          /\ SingleTicketLine(lines, i)
          /\ ~OnlyLineNaming(lines, i)
          /\ Len(Get(notes_by_ticket, TicketOf(lines, i))) = 2
          /\ Contains(Get(notes_by_ticket, TicketOf(lines, i)), strip(lines[i]))

\* C9: every ticket ID found on a line that names more than one gets the one
\* note built from that line's window (the line plus its continuation lines).
C9_SameNoteForEveryTicket ==
    pc = "done" =>
        \A i \in 1..Len(lines) :
            Len(TICKET_ID_RE_findall(strip(lines[i]))) > 1 =>
                \A t \in SeqRange(TICKET_ID_RE_findall(strip(lines[i]))) :
                    /\ HasKey(notes_by_ticket, t)
                    /\ Contains(Get(notes_by_ticket, t), WindowNote(lines, i))

\* C9 witness: a line with two different ticket IDs and a continuation line.
C9_Witness ==
    /\ pc = "done"
    /\ \E i \in 1..Len(lines) :
          /\ Cardinality(SeqRange(TICKET_ID_RE_findall(strip(lines[i])))) > 1
          /\ WindowEnd(lines, i) > i
          /\ \A t \in SeqRange(TICKET_ID_RE_findall(strip(lines[i]))) :
                Contains(Get(notes_by_ticket, t), WindowNote(lines, i))

\* The ticket IDs the recognizer matches on the lines of ls.
DetectedTickets(ls) ==
    UNION {SeqRange(TICKET_ID_RE_findall(strip(ls[i]))) : i \in 1..Len(ls)}

\* C13: every ticket ID matched on a non-blank line is a key of the returned
\* map with at least one note, with or without continuation lines after it,
\* and every key of the map is a ticket ID matched on some line.
C13_KeysAreTheDetectedTickets ==
    pc = "done" =>
        /\ \A t \in DetectedTickets(lines) :
              HasKey(notes_by_ticket, t) /\ Len(Get(notes_by_ticket, t)) >= 1
        /\ SeqRange(Keys(notes_by_ticket)) = DetectedTickets(lines)

\* C13 witness: two tickets were found, one of them on a line that no
\* continuation line follows.
C13_Witness ==
    /\ pc = "done"
    /\ Cardinality(DetectedTickets(lines)) = 2
    /\ \E i \in 1..Len(lines) : NamesTicket(lines[i]) /\ WindowEnd(lines, i) = i
    /\ SeqRange(Keys(notes_by_ticket)) = DetectedTickets(lines)
    /\ \A n \in 1..Len(notes_by_ticket) : notes_by_ticket[n].v # <<>>

=============================================================================
